---- MODULE Spec2Model ----
(***************************************************************************)
(* generic-json: the six-variant Value, its borrowed views ValueRef and    *)
(* ValueMut, the derived operations of the Json trait, and the comparison  *)
(* of Value<T> with Value<U> over two backends (the reference MetaValue    *)
(* and serde_json::Value).                                                 *)
(*                                                                         *)
(* Representation.  A Rust enum value is a record whose tag field names    *)
(* the variant and whose other field is the payload of that variant, so a  *)
(* payload can only be read under the tag test that guards it, as in a     *)
(* Rust match.  A string is the sequence of its code units.  A reference   *)
(* to a payload is the payload it refers to.  An object is the sequence of *)
(* its entries in iteration order (key order).                             *)
(***************************************************************************)
EXTENDS Integers, Sequences, FiniteSets, TLC

VARIABLES j, k, res

vars == <<j, k, res>>

(***************************************************************************)
(* Bounds of the checked instance.                                         *)
(***************************************************************************)
MaxLen == 2

MaxNum == 1

Metas == {0, 1}

ChildMeta == 1

(* The most binary digits set in the magnitude of a number under test, and *)
(* the digit positions they are drawn from (2^-1 up to 2^130).             *)
MaxBits == 2

BitPositions == {-1, 0, 24, 31, 32, 39, 53, 63, 130}

Strs == {<<1>>, <<1, 2>>}

KeyTexts == {<<1>>, <<2>>}

(***************************************************************************)
(* Option and Ordering of the standard library.                            *)
(***************************************************************************)
None == [some |-> FALSE]

Some(x) == [some |-> TRUE, v |-> x]

Less == "Less"

Equal == "Equal"

Greater == "Greater"

(***************************************************************************)
(* Numeric values.  A value is a sign and the set of the positions of the  *)
(* bits set in its magnitude: 2^32 + 1 is [neg |-> FALSE, bits |-> {0,     *)
(* 32}], -1.5 is [neg |-> TRUE, bits |-> {-1, 0}], zero has no bit.  An    *)
(* integer type of width w holds the values whose bits lie in 0..w-1; an   *)
(* f64 holds the values whose bits span at most 53 positions, an f32 at    *)
(* most 24, with the highest bit at most 127.  The casts are those of the  *)
(* Rust `as` operator: an integer cast to a narrower integer keeps the low *)
(* bits (two's complement), a cast to a float rounds to nearest, ties to   *)
(* even, and overflows to infinity.                                        *)
(***************************************************************************)
Real(neg, bits) == [neg |-> neg, bits |-> bits]

Infinity(neg) == [neg |-> neg, inf |-> TRUE]

MaxBit(B) == CHOOSE x \in B : \A y \in B : y <= x

MinBit(B) == CHOOSE x \in B : \A y \in B : x <= y

MagCmp(A, B) ==
    IF A = B THEN Equal
    ELSE IF MaxBit((A \ B) \cup (B \ A)) \in B THEN Less
    ELSE Greater

RealCmp(x, y) ==
    IF x.neg /\ ~y.neg THEN Less
    ELSE IF ~x.neg /\ y.neg THEN Greater
    ELSE IF x.neg THEN MagCmp(y.bits, x.bits)
    ELSE MagCmp(x.bits, y.bits)

RECURSIVE AddBit(_, _)
AddBit(B, p) == IF p \in B THEN AddBit(B \ {p}, p + 1) ELSE B \cup {p}

RoundMag(B, p) ==
    IF B = {} THEN {}
    ELSE LET lo == MaxBit(B) - p + 1
             kept == {i \in B : i >= lo}
             rest == {i \in B : i < lo}
             up == (lo - 1) \in rest /\ (rest # {lo - 1} \/ lo \in kept)
         IN  IF up THEN AddBit(kept, lo) ELSE kept

TwosComplement(B, w) ==
    IF B = {} THEN {}
    ELSE {MinBit(B)} \cup {i \in (MinBit(B) + 1)..(w - 1) : i \notin B}

cast_u64_u32(u) == Real(FALSE, {i \in u.bits : i < 32})

cast_i64_i32(i) ==
    LET pattern == IF i.neg THEN TwosComplement(i.bits, 64) ELSE i.bits
        low == {b \in pattern : b < 32}
    IN  IF 31 \in low THEN Real(TRUE, TwosComplement(low, 32)) ELSE Real(FALSE, low)

cast_int_f64(n) == Real(n.neg, RoundMag(n.bits, 53))

cast_int_f32(n) == Real(n.neg, RoundMag(n.bits, 24))

cast_f64_f32(f) ==
    LET r == RoundMag(f.bits, 24)
    IN  IF r # {} /\ MaxBit(r) > 127 THEN Infinity(f.neg) ELSE Real(f.neg, r)

(***************************************************************************)
(* value.rs: enum Value<T>.                                                *)
(***************************************************************************)
Null == [tag |-> "Null"]

Boolean(b) == [tag |-> "Boolean", b |-> b]

Number(n) == [tag |-> "Number", n |-> n]

String(s) == [tag |-> "String", s |-> s]

Array(a) == [tag |-> "Array", a |-> a]

Object(o) == [tag |-> "Object", o |-> o]

(***************************************************************************)
(* reference.rs: enum ValueRef<'a, T> and enum ValueMut<'a, T>.            *)
(***************************************************************************)
ValueRef(tag, p) == [view |-> "ref", tag |-> tag, p |-> p]

ValueRefNull == [view |-> "ref", tag |-> "Null"]

ValueMut(tag, p) == [view |-> "mut", tag |-> tag, p |-> p]

ValueMutNull == [view |-> "mut", tag |-> "Null"]

(***************************************************************************)
(* value.rs: impl Value<T>, the classification predicates.                 *)
(***************************************************************************)
Value_is_null(v) == v.tag = "Null"

Value_is_bool(v) == v.tag = "Boolean"

Value_is_number(v) == v.tag = "Number"

Value_is_string(v) == v.tag = "String"

Value_is_array(v) == v.tag = "Array"

Value_is_object(v) == v.tag = "Object"

(***************************************************************************)
(* value.rs: impl Value<T>, the extractors.                                *)
(***************************************************************************)
Value_as_bool(v) == IF v.tag = "Boolean" THEN Some(v.b) ELSE None

Value_as_number(v) == IF v.tag = "Number" THEN Some(v.n) ELSE None

Value_as_str(v) == IF v.tag = "String" THEN Some(v.s) ELSE None

Value_as_array(v) == IF v.tag = "Array" THEN Some(v.a) ELSE None

Value_as_array_mut(v) == IF v.tag = "Array" THEN Some(v.a) ELSE None

Value_as_object(v) == IF v.tag = "Object" THEN Some(v.o) ELSE None

Value_as_object_mut(v) == IF v.tag = "Object" THEN Some(v.o) ELSE None

Value_as_value_ref_Swapped(v) ==
    IF v.tag = "Null" THEN ValueRefNull
    ELSE IF v.tag = "Boolean" THEN ValueRef("Boolean", v.b)
    ELSE IF v.tag = "Number" THEN ValueRef("Number", v.n)
    ELSE IF v.tag = "String" THEN ValueRef("String", v.s)
    ELSE IF v.tag = "Array" THEN ValueRef("Object", v.a)
    ELSE ValueRef("Array", v.o)

Value_as_value_ref(v) ==
    IF v.tag = "Null" THEN ValueRefNull
    ELSE IF v.tag = "Boolean" THEN ValueRef("Boolean", v.b)
    ELSE IF v.tag = "Number" THEN ValueRef("Number", v.n)
    ELSE IF v.tag = "String" THEN ValueRef("String", v.s)
    ELSE IF v.tag = "Array" THEN ValueRef("Array", v.a)
    ELSE ValueRef("Object", v.o)

Value_as_value_mut(v) ==
    IF v.tag = "Null" THEN ValueMutNull
    ELSE IF v.tag = "Boolean" THEN ValueMut("Boolean", v.b)
    ELSE IF v.tag = "Number" THEN ValueMut("Number", v.n)
    ELSE IF v.tag = "String" THEN ValueMut("String", v.s)
    ELSE IF v.tag = "Array" THEN ValueMut("Array", v.a)
    ELSE ValueMut("Object", v.o)

(***************************************************************************)
(* reference.rs: common_impls!(ValueRef, ValueMut), the predicates shared  *)
(* by the two views.                                                       *)
(***************************************************************************)
View_is_null(r) == r.tag = "Null"

View_is_bool(r) == r.tag = "Boolean"

View_is_number(r) == r.tag = "Number"

View_is_string(r) == r.tag = "String"

View_is_array(r) == r.tag = "Array"

View_is_object(r) == r.tag = "Object"

(***************************************************************************)
(* reference.rs: impl ValueRef<'a, T>.                                     *)
(***************************************************************************)
ValueRef_as_bool(r) == IF r.tag = "Boolean" THEN Some(r.p) ELSE None

ValueRef_as_number(r) == IF r.tag = "Number" THEN Some(r.p) ELSE None

ValueRef_as_str(r) == IF r.tag = "String" THEN Some(r.p) ELSE None

ValueRef_into_str(r) == IF r.tag = "String" THEN Some(r.p) ELSE None

ValueRef_as_array(r) == IF r.tag = "Array" THEN Some(r.p) ELSE None

ValueRef_as_object_OnArray(r) == IF r.tag = "Array" THEN Some(r.p) ELSE None

ValueRef_as_object(r) == IF r.tag = "Object" THEN Some(r.p) ELSE None

(***************************************************************************)
(* reference.rs: impl ValueMut<'a, T>.                                     *)
(***************************************************************************)
ValueMut_as_bool(r) == IF r.tag = "Boolean" THEN Some(r.p) ELSE None

ValueMut_as_number(r) == IF r.tag = "Number" THEN Some(r.p) ELSE None

ValueMut_as_str(r) == IF r.tag = "String" THEN Some(r.p) ELSE None

ValueMut_as_array(r) == IF r.tag = "Array" THEN Some(r.p) ELSE None

ValueMut_as_object(r) == IF r.tag = "Object" THEN Some(r.p) ELSE None

ValueMut_as_array_mut(r) == IF r.tag = "Array" THEN Some(r.p) ELSE None

ValueMut_into_array_mut_OnObject(r) == IF r.tag = "Object" THEN Some(r.p) ELSE None

ValueMut_into_array_mut(r) == IF r.tag = "Array" THEN Some(r.p) ELSE None

ValueMut_as_object_mut(r) == IF r.tag = "Object" THEN Some(r.p) ELSE None

ValueMut_into_object_mut(r) == IF r.tag = "Object" THEN Some(r.p) ELSE None

(***************************************************************************)
(* impls/serde_json.rs: impl Number for serde_json::Number.  A             *)
(* serde_json::Number is a record [k, v] of its kind (PosInt: a u64,       *)
(* NegInt: a negative i64, Float: a finite f64) and its numeric value.     *)
(* N_as_u64, N_as_i64 and N_as_f64 are the inherent methods of             *)
(* serde_json::Number that the impl calls: as_u64 is Some for a PosInt,    *)
(* as_i64 for an integer that fits an i64, and as_f64 for every number     *)
(* (an integer is cast to f64).                                            *)
(***************************************************************************)
Panic == [panic |-> TRUE]

N_as_u64(n) == IF n.k = "PosInt" THEN Some(n.v) ELSE None

N_as_i64(n) ==
    IF n.k = "PosInt" THEN (IF 63 \in n.v.bits THEN None ELSE Some(n.v))
    ELSE IF n.k = "NegInt" THEN Some(n.v)
    ELSE None

N_as_f64(n) == IF n.k = "Float" THEN Some(n.v) ELSE Some(cast_int_f64(n.v))

SerdeNumber_as_u32(n) ==
    LET u == N_as_u64(n) IN IF u.some THEN Some(cast_u64_u32(u.v)) ELSE None

SerdeNumber_as_u64_Reinterpreted(n) ==
    LET i == N_as_i64(n)
    IN  IF i.some
        THEN Some(Real(FALSE, IF i.v.neg THEN TwosComplement(i.v.bits, 64) ELSE i.v.bits))
        ELSE N_as_u64(n)

SerdeNumber_as_u64(n) == N_as_u64(n)

SerdeNumber_as_i32(n) ==
    LET i == N_as_i64(n) IN IF i.some THEN Some(cast_i64_i32(i.v)) ELSE None

SerdeNumber_as_i64(n) == N_as_i64(n)

SerdeNumber_as_f32(n) ==
    LET f == N_as_f64(n) IN IF f.some THEN Some(cast_f64_f32(f.v)) ELSE None

SerdeNumber_as_f32_lossy(n) ==
    LET f == N_as_f64(n)
        u == N_as_u64(n)
        i == N_as_i64(n)
    IN  IF f.some THEN cast_f64_f32(f.v)
        ELSE IF u.some THEN cast_int_f32(u.v)
        ELSE IF i.some THEN cast_int_f32(i.v)
        ELSE Panic

SerdeNumber_as_f64_IntegersOnly(n) == IF n.k = "Float" THEN None ELSE N_as_f64(n)

SerdeNumber_as_f64(n) == N_as_f64(n)

SerdeNumber_as_f64_lossy_UnsignedOnly(n) ==
    LET u == N_as_u64(n)
    IN  IF n.k = "Float" THEN n.v
        ELSE IF u.some THEN cast_int_f64(u.v)
        ELSE Panic

SerdeNumber_as_f64_lossy(n) ==
    LET f == N_as_f64(n)
        u == N_as_u64(n)
        i == N_as_i64(n)
    IN  IF f.some THEN f.v
        ELSE IF u.some THEN cast_int_f64(u.v)
        ELSE IF i.some THEN cast_int_f64(i.v)
        ELSE Panic

(***************************************************************************)
(* number.rs: struct Zero and impl Number for Zero.                        *)
(***************************************************************************)
Zero == [k |-> "Zero"]

Zero_as_u32(z) == None

Zero_as_u64(z) == None

Zero_as_i32(z) == None

Zero_as_i64(z) == None

Zero_as_f32(z) == Some(Real(FALSE, {}))

Zero_as_f32_lossy(z) == Real(FALSE, {})

Zero_as_f64(z) == Some(Real(FALSE, {}))

Zero_as_f64_lossy(z) == Real(FALSE, {})

(***************************************************************************)
(* number.rs: trait Number.  Each method dispatches on the implementing    *)
(* type.                                                                   *)
(***************************************************************************)
Number_as_u32(n) == IF n.k = "Zero" THEN Zero_as_u32(n) ELSE SerdeNumber_as_u32(n)

Number_as_u64(n) == IF n.k = "Zero" THEN Zero_as_u64(n) ELSE SerdeNumber_as_u64(n)

Number_as_i32(n) == IF n.k = "Zero" THEN Zero_as_i32(n) ELSE SerdeNumber_as_i32(n)

Number_as_i64(n) == IF n.k = "Zero" THEN Zero_as_i64(n) ELSE SerdeNumber_as_i64(n)

Number_as_f32(n) == IF n.k = "Zero" THEN Zero_as_f32(n) ELSE SerdeNumber_as_f32(n)

Number_as_f32_lossy(n) ==
    IF n.k = "Zero" THEN Zero_as_f32_lossy(n) ELSE SerdeNumber_as_f32_lossy(n)

Number_as_f64(n) == IF n.k = "Zero" THEN Zero_as_f64(n) ELSE SerdeNumber_as_f64(n)

Number_as_f64_lossy(n) ==
    IF n.k = "Zero" THEN Zero_as_f64_lossy(n) ELSE SerdeNumber_as_f64_lossy(n)

NumberAs(n) ==
    [u32 |-> Number_as_u32(n), u64 |-> Number_as_u64(n), i32 |-> Number_as_i32(n),
     i64 |-> Number_as_i64(n), f32 |-> Number_as_f32(n),
     f32_lossy |-> Number_as_f32_lossy(n), f64 |-> Number_as_f64(n),
     f64_lossy |-> Number_as_f64_lossy(n)]

(***************************************************************************)
(* reference.rs: common_impls!(ValueRef, ValueMut), the numeric accessors  *)
(* shared by the two views: self.as_number().map(Number::as_X).flatten().  *)
(***************************************************************************)
View_as_number(r) == IF r.view = "ref" THEN ValueRef_as_number(r) ELSE ValueMut_as_number(r)

View_as_u32(r) ==
    LET n == View_as_number(r) IN IF n.some THEN Number_as_u32(n.v) ELSE None

View_as_u64(r) ==
    LET n == View_as_number(r) IN IF n.some THEN Number_as_u64(n.v) ELSE None

View_as_i32(r) ==
    LET n == View_as_number(r) IN IF n.some THEN Number_as_i32(n.v) ELSE None

View_as_i64(r) ==
    LET n == View_as_number(r) IN IF n.some THEN Number_as_i64(n.v) ELSE None

View_as_f32(r) ==
    LET n == View_as_number(r) IN IF n.some THEN Number_as_f32(n.v) ELSE None

View_as_f32_lossy(r) ==
    LET n == View_as_number(r) IN IF n.some THEN Some(Number_as_f32_lossy(n.v)) ELSE None

View_as_f64(r) ==
    LET n == View_as_number(r) IN IF n.some THEN Number_as_f64(n.v) ELSE None

View_as_f64_lossy(r) ==
    LET n == View_as_number(r) IN IF n.some THEN Some(Number_as_f64_lossy(n.v)) ELSE None

ViewNumberAs(r) ==
    [u32 |-> View_as_u32(r), u64 |-> View_as_u64(r), i32 |-> View_as_i32(r),
     i64 |-> View_as_i64(r), f32 |-> View_as_f32(r), f32_lossy |-> View_as_f32_lossy(r),
     f64 |-> View_as_f64(r), f64_lossy |-> View_as_f64_lossy(r)]

(***************************************************************************)
(* metavalue.rs: struct MetaValue<M> { meta, value }, struct Key<M>        *)
(* { meta, key }, and impl Json for MetaValue<M>.                          *)
(***************************************************************************)
MetaValue_new(value, metadata) == [meta |-> metadata, value |-> value]

MetaValue_value(n) == n.value

MetaValue_metadata(n) == n.meta

MetaValue_as_value_ref(n) == Value_as_value_ref(n.value)

MetaValue_as_value_mut(n) == Value_as_value_mut(n.value)

Key_as_ref(key) == key.key

(***************************************************************************)
(* impls/serde_json.rs: impl Json for serde_json::Value and impl JsonNew   *)
(* for serde_json::Value.  A serde_json::Value is the record of its own    *)
(* enum (field sj names the variant); its keys are plain Strings.          *)
(***************************************************************************)
serde_json_as_value_ref(n) ==
    IF n.sj = "Null" THEN ValueRefNull
    ELSE IF n.sj = "Bool" THEN ValueRef("Boolean", n.b)
    ELSE IF n.sj = "Number" THEN ValueRef("Number", n.n)
    ELSE IF n.sj = "String" THEN ValueRef("String", n.s)
    ELSE IF n.sj = "Array" THEN ValueRef("Array", n.a)
    ELSE ValueRef("Object", n.o)

serde_json_as_value_mut(n) ==
    IF n.sj = "Null" THEN ValueMutNull
    ELSE IF n.sj = "Bool" THEN ValueMut("Boolean", n.b)
    ELSE IF n.sj = "Number" THEN ValueMut("Number", n.n)
    ELSE IF n.sj = "String" THEN ValueMut("String", n.s)
    ELSE IF n.sj = "Array" THEN ValueMut("Array", n.a)
    ELSE ValueMut("Object", n.o)

serde_json_into_parts(n) ==
    LET value == IF n.sj = "Null" THEN Null
                 ELSE IF n.sj = "Bool" THEN Boolean(n.b)
                 ELSE IF n.sj = "Number" THEN Number(n.n)
                 ELSE IF n.sj = "String" THEN String(n.s)
                 ELSE IF n.sj = "Array" THEN Array(n.a)
                 ELSE Object(n.o)
    IN  <<value, <<>>>>

serde_json_metadata(n) == <<>>

serde_json_new(value) ==
    IF value.tag = "Null" THEN [sj |-> "Null"]
    ELSE IF value.tag = "Boolean" THEN [sj |-> "Bool", b |-> value.b]
    ELSE IF value.tag = "Number" THEN [sj |-> "Number", n |-> value.n]
    ELSE IF value.tag = "String" THEN [sj |-> "String", s |-> value.s]
    ELSE IF value.tag = "Array" THEN [sj |-> "Array", a |-> value.a]
    ELSE [sj |-> "Object", o |-> value.o]

serde_json_new_key(key) == [key |-> key]

(***************************************************************************)
(* impls/ijson.rs: impl Json for IValue and impl JsonNew for IValue.  An   *)
(* IValue is the record of its own representation (field iv): the three   *)
(* constants NULL, TRUE and FALSE, or a number, string, array or object.   *)
(* destructure() reads the two boolean constants as Bool(b).               *)
(***************************************************************************)
ijson_destructure(n) ==
    IF n.iv = "NULL" THEN [d |-> "Null"]
    ELSE IF n.iv = "TRUE" THEN [d |-> "Bool", b |-> TRUE]
    ELSE IF n.iv = "FALSE" THEN [d |-> "Bool", b |-> FALSE]
    ELSE IF n.iv = "Number" THEN [d |-> "Number", n |-> n.n]
    ELSE IF n.iv = "String" THEN [d |-> "String", s |-> n.s]
    ELSE IF n.iv = "Array" THEN [d |-> "Array", a |-> n.a]
    ELSE [d |-> "Object", o |-> n.o]

ijson_as_value_ref(n) ==
    LET d == ijson_destructure(n)
    IN  IF d.d = "Null" THEN ValueRefNull
        ELSE IF d.d = "Bool" THEN ValueRef("Boolean", d.b)
        ELSE IF d.d = "Number" THEN ValueRef("Number", d.n)
        ELSE IF d.d = "String" THEN ValueRef("String", d.s)
        ELSE IF d.d = "Array" THEN ValueRef("Array", d.a)
        ELSE ValueRef("Object", d.o)

ijson_as_value_mut(n) ==
    LET d == ijson_destructure(n)
    IN  IF d.d = "Null" THEN ValueMutNull
        ELSE IF d.d = "Bool" THEN ValueMut("Boolean", d.b)
        ELSE IF d.d = "Number" THEN ValueMut("Number", d.n)
        ELSE IF d.d = "String" THEN ValueMut("String", d.s)
        ELSE IF d.d = "Array" THEN ValueMut("Array", d.a)
        ELSE ValueMut("Object", d.o)

ijson_into_parts(n) ==
    LET d == ijson_destructure(n)
        value == IF d.d = "Null" THEN Null
                 ELSE IF d.d = "Bool" THEN Boolean(d.b)
                 ELSE IF d.d = "Number" THEN Number(d.n)
                 ELSE IF d.d = "String" THEN String(d.s)
                 ELSE IF d.d = "Array" THEN Array(d.a)
                 ELSE Object(d.o)
    IN  <<value, <<>>>>

ijson_metadata(n) == <<>>

ijson_new_BooleanAlwaysTrue(value) ==
    IF value.tag = "Null" THEN [iv |-> "NULL"]
    ELSE IF value.tag = "Boolean" THEN [iv |-> "TRUE"]
    ELSE IF value.tag = "Number" THEN [iv |-> "Number", n |-> value.n]
    ELSE IF value.tag = "String" THEN [iv |-> "String", s |-> value.s]
    ELSE IF value.tag = "Array" THEN [iv |-> "Array", a |-> value.a]
    ELSE [iv |-> "Object", o |-> value.o]

ijson_new(value) ==
    IF value.tag = "Null" THEN [iv |-> "NULL"]
    ELSE IF value.tag = "Boolean" /\ value.b THEN [iv |-> "TRUE"]
    ELSE IF value.tag = "Boolean" THEN [iv |-> "FALSE"]
    ELSE IF value.tag = "Number" THEN [iv |-> "Number", n |-> value.n]
    ELSE IF value.tag = "String" THEN [iv |-> "String", s |-> value.s]
    ELSE IF value.tag = "Array" THEN [iv |-> "Array", a |-> value.a]
    ELSE [iv |-> "Object", o |-> value.o]

ijson_new_key(key) == [key |-> key]

(***************************************************************************)
(* impls/json.rs: impl Json for json::JsonValue.  A JsonValue is the       *)
(* record of its own enum (field jv names the variant).  The two view      *)
(* methods of the impl (named as_ref and as_mut there) are panic!("TODO"). *)
(***************************************************************************)
json_metadata(n) == <<>>

json_as_ref(n) == Panic

json_as_mut(n) == Panic

json_Value_from(n) ==
    IF n.jv = "Null" THEN Null
    ELSE IF n.jv = "Boolean" THEN Boolean(n.b)
    ELSE IF n.jv = "Number" THEN Number(n.n)
    ELSE IF n.jv = "String" THEN String(n.s)
    ELSE IF n.jv = "Array" THEN Array(n.a)
    ELSE Object(n.o)

(***************************************************************************)
(* lib.rs: trait Json.  The required methods dispatch on the implementing  *)
(* type; the provided methods are the trait's default bodies.              *)
(***************************************************************************)
IsMetaValue(n) == "meta" \in DOMAIN n

IsIValue(n) == "iv" \in DOMAIN n

IsJsonValue(n) == "jv" \in DOMAIN n

Json_as_value_ref(n) ==
    IF IsMetaValue(n) THEN MetaValue_as_value_ref(n)
    ELSE IF IsIValue(n) THEN ijson_as_value_ref(n)
    ELSE IF IsJsonValue(n) THEN json_as_ref(n)
    ELSE serde_json_as_value_ref(n)

Json_as_value_mut(n) ==
    IF IsMetaValue(n) THEN MetaValue_as_value_mut(n)
    ELSE IF IsIValue(n) THEN ijson_as_value_mut(n)
    ELSE IF IsJsonValue(n) THEN json_as_mut(n)
    ELSE serde_json_as_value_mut(n)

Json_metadata(n) ==
    IF IsMetaValue(n) THEN MetaValue_metadata(n)
    ELSE IF IsIValue(n) THEN ijson_metadata(n)
    ELSE IF IsJsonValue(n) THEN json_metadata(n)
    ELSE serde_json_metadata(n)

MetaValue_into_parts(n) == <<n.value, n.meta>>

Json_into_parts(n) ==
    IF IsMetaValue(n) THEN MetaValue_into_parts(n)
    ELSE IF IsIValue(n) THEN ijson_into_parts(n)
    ELSE serde_json_into_parts(n)

Json_into_value(n) ==
    IF IsMetaValue(n) THEN MetaValue_value(n)
    ELSE IF IsJsonValue(n) THEN json_Value_from(n)
    ELSE Json_into_parts(n)[1]

JsonNew_new(B, value, metadata) ==
    IF B = "MetaValue" THEN MetaValue_new(value, metadata)
    ELSE IF B = "ijson" THEN ijson_new(value)
    ELSE serde_json_new(value)

MetaValue_new_key(key, metadata) == [meta |-> metadata, key |-> key]

JsonNew_new_key(B, key, metadata) ==
    IF B = "MetaValue" THEN MetaValue_new_key(key, metadata)
    ELSE IF B = "ijson" THEN ijson_new_key(key)
    ELSE serde_json_new_key(key)

(* lib.rs: trait JsonNew, the provided builders.  Array::default() and     *)
(* Object::default() are the empty sequence.                               *)
JsonNew_null(B, metadata) == JsonNew_new(B, Null, metadata)

JsonNew_boolean(B, x, metadata) == JsonNew_new(B, Boolean(x), metadata)

JsonNew_number(B, n, metadata) == JsonNew_new(B, Number(n), metadata)

JsonNew_string(B, t, metadata) == JsonNew_new(B, String(t), metadata)

JsonNew_array(B, s, metadata) == JsonNew_new(B, Array(s), metadata)

JsonNew_empty_array(B, metadata) == JsonNew_array(B, <<>>, metadata)

JsonNew_object(B, o, metadata) == JsonNew_new(B, Object(o), metadata)

JsonNew_empty_object_AsArray(B, metadata) == JsonNew_array(B, <<>>, metadata)

JsonNew_empty_object(B, metadata) == JsonNew_object(B, <<>>, metadata)

Value_take_Keeps(self) == [out |-> self, self |-> self]

Value_take(self) == [out |-> self, self |-> Null]

Value_with(B, self, meta) == JsonNew_new(B, self, meta)

Value_default == Null

Value_from(n) == Json_into_value(n)

Json_is_null(n) == View_is_null(Json_as_value_ref(n))

Json_is_empty_array(n) ==
    LET r == Json_as_value_ref(n)
    IN  IF r.tag = "Array" THEN Len(r.p) = 0 ELSE FALSE

Json_is_empty_object(n) ==
    LET r == Json_as_value_ref(n)
    IN  IF r.tag = "Array" THEN Len(r.p) = 0 ELSE FALSE

Json_is_empty_array_or_object(n) ==
    LET r == Json_as_value_ref(n)
    IN  IF r.tag = "Array" THEN Len(r.p) = 0
        ELSE IF r.tag = "Object" THEN Len(r.p) = 0
        ELSE FALSE

Json_is_bool(n) == View_is_bool(Json_as_value_ref(n))

Json_is_number(n) == View_is_number(Json_as_value_ref(n))

Json_is_string(n) == View_is_string(Json_as_value_ref(n))

Json_is_array(n) == View_is_array(Json_as_value_ref(n))

Json_is_object(n) == View_is_object(Json_as_value_ref(n))

Json_as_bool(n) == ValueRef_as_bool(Json_as_value_ref(n))

Json_as_number(n) == ValueRef_as_number(Json_as_value_ref(n))

Json_as_str(n) == ValueRef_into_str(Json_as_value_ref(n))

Json_as_array_Stale(n) == ValueRef_as_array(Json_as_value_ref(k))

Json_as_array(n) == ValueRef_as_array(Json_as_value_ref(n))

Json_as_array_mut(n) == ValueMut_into_array_mut(Json_as_value_mut(n))

Json_as_object(n) == ValueRef_as_object(Json_as_value_ref(n))

Json_as_object_mut(n) == ValueMut_into_object_mut(Json_as_value_mut(n))

(***************************************************************************)
(* reference.rs: ValueRef::cloned and ValueMut::cloned; value.rs: impl     *)
(* Clone for Value<T>.  Each arm builds the owned variant from a copy of   *)
(* the payload.                                                            *)
(***************************************************************************)
Owned(tag, p) ==
    IF tag = "Null" THEN Null
    ELSE IF tag = "Boolean" THEN Boolean(p)
    ELSE IF tag = "Number" THEN Number(p)
    ELSE IF tag = "String" THEN String(p)
    ELSE IF tag = "Array" THEN Array(p)
    ELSE Object(p)

ValueRef_cloned_ArrayAsObject(r) ==
    IF r.tag = "Array" THEN Object(r.p) ELSE Owned(r.tag, r.p)

ValueRef_cloned(r) == Owned(r.tag, r.p)

ValueMut_cloned(r) == Owned(r.tag, r.p)

Value_clone(v) ==
    IF v.tag = "Null" THEN Null
    ELSE IF v.tag = "Boolean" THEN Boolean(v.b)
    ELSE IF v.tag = "Number" THEN Number(v.n)
    ELSE IF v.tag = "String" THEN String(v.s)
    ELSE IF v.tag = "Array" THEN Array(v.a)
    ELSE Object(v.o)

(***************************************************************************)
(* reference.rs: enum ValueMut.  The Number, String, Array and Object      *)
(* variants hold a &mut to the payload inside the node, Boolean holds the  *)
(* bool by value and Null holds nothing.  ValueMut_store(n, m, p) is the   *)
(* node n after p is written through the reference held by its view m.     *)
(***************************************************************************)
PayloadField(tag) ==
    IF tag = "Number" THEN "n"
    ELSE IF tag = "String" THEN "s"
    ELSE IF tag = "Array" THEN "a"
    ELSE "o"

ValueMut_store_ThroughBoolean(n, m, p) ==
    IF m.tag = "Null" THEN n
    ELSE IF m.tag = "Boolean"
         THEN (IF IsMetaValue(n) THEN [n EXCEPT !.value.b = p]
               ELSE IF IsIValue(n) THEN [iv |-> IF p THEN "TRUE" ELSE "FALSE"]
               ELSE [n EXCEPT !.b = p])
    ELSE IF IsMetaValue(n) THEN [n EXCEPT !.value[PayloadField(m.tag)] = p]
    ELSE [n EXCEPT ![PayloadField(m.tag)] = p]

ValueMut_store(n, m, p) ==
    IF m.tag \in {"Null", "Boolean"} THEN n
    ELSE IF IsMetaValue(n) THEN [n EXCEPT !.value[PayloadField(m.tag)] = p]
    ELSE [n EXCEPT ![PayloadField(m.tag)] = p]

(***************************************************************************)
(* The payload comparisons that value.rs requires of the backends through  *)
(* its where clauses: T::Number: PartialEq<U::Number> + PartialOrd<..>,    *)
(* likewise String, Array and Object.  bool and str compare as in the      *)
(* standard library.  A number is a record [k, v] of a kind (PosInt,       *)
(* NegInt, Float) and a numeric value; numbers of one kind compare by      *)
(* value, numbers of different kinds are unequal and unordered, which      *)
(* gives the payload order a None case.  Arrays compare element-wise and   *)
(* objects entry-wise in iteration order, as slices and BTreeMap do;       *)
(* elements are backend nodes, compared by their values with the metadata  *)
(* ignored (lib.rs, Json::MetaData).                                       *)
(***************************************************************************)
bool_partial_cmp(a, b) ==
    Some(IF a = b THEN Equal ELSE IF b THEN Less ELSE Greater)

RECURSIVE str_cmp_from(_, _, _)
str_cmp_from(s, t, i) ==
    IF i > Len(s) THEN (IF i > Len(t) THEN Equal ELSE Less)
    ELSE IF i > Len(t) THEN Greater
    ELSE IF s[i] < t[i] THEN Less
    ELSE IF s[i] > t[i] THEN Greater
    ELSE str_cmp_from(s, t, i + 1)

str_cmp(s, t) == str_cmp_from(s, t, 1)

String_eq(s, t) == s = t

String_partial_cmp(s, t) == Some(str_cmp(s, t))

Number_eq(m, n) == m.k = n.k /\ m.v = n.v

Number_partial_cmp(m, n) ==
    IF m.k # n.k THEN None ELSE Some(RealCmp(m.v, n.v))

Key_eq_WithMeta(x, y) == x = y

Key_eq(x, y) == Key_as_ref(x) = Key_as_ref(y)

Key_cmp_MetaTiebreak(x, y) ==
    LET c == str_cmp(Key_as_ref(x), Key_as_ref(y))
    IN  IF c = Equal /\ x # y THEN Less ELSE c

Key_cmp(x, y) == str_cmp(Key_as_ref(x), Key_as_ref(y))

Key_partial_cmp(x, y) == Some(str_cmp(Key_as_ref(x), Key_as_ref(y)))

RECURSIVE Value_eq(_, _)
RECURSIVE Value_partial_cmp(_, _)

Node_eq(x, y) == Value_eq(Json_into_value(x), Json_into_value(y))

Node_partial_cmp(x, y) == Value_partial_cmp(Json_into_value(x), Json_into_value(y))

Array_eq(a, b) ==
    /\ Len(a) = Len(b)
    /\ \A i \in 1..Len(a) : Node_eq(a[i], b[i])

RECURSIVE Array_partial_cmp_from(_, _, _)
Array_partial_cmp_from(a, b, i) ==
    IF i > Len(a) THEN (IF i > Len(b) THEN Some(Equal) ELSE Some(Less))
    ELSE IF i > Len(b) THEN Some(Greater)
    ELSE LET c == Node_partial_cmp(a[i], b[i])
         IN  IF c = Some(Equal) THEN Array_partial_cmp_from(a, b, i + 1) ELSE c

Array_partial_cmp_ShorterGreater(a, b) ==
    IF Len(a) < Len(b) THEN Some(Greater)
    ELSE IF Len(a) > Len(b) THEN Some(Less)
    ELSE Array_partial_cmp_from(a, b, 1)

Array_partial_cmp(a, b) == Array_partial_cmp_from(a, b, 1)

Entry_eq(x, y) == Key_eq(x.key, y.key) /\ Node_eq(x.value, y.value)

Entry_partial_cmp(x, y) ==
    LET c == Key_partial_cmp(x.key, y.key)
    IN  IF c = Some(Equal) THEN Node_partial_cmp(x.value, y.value) ELSE c

Object_eq(a, b) ==
    /\ Len(a) = Len(b)
    /\ \A i \in 1..Len(a) : Entry_eq(a[i], b[i])

RECURSIVE Object_partial_cmp_from(_, _, _)
Object_partial_cmp_from(a, b, i) ==
    IF i > Len(a) THEN (IF i > Len(b) THEN Some(Equal) ELSE Some(Less))
    ELSE IF i > Len(b) THEN Some(Greater)
    ELSE LET c == Entry_partial_cmp(a[i], b[i])
         IN  IF c = Some(Equal) THEN Object_partial_cmp_from(a, b, i + 1) ELSE c

Object_partial_cmp(a, b) == Object_partial_cmp_from(a, b, 1)

(***************************************************************************)
(* value.rs: impl PartialEq<&str>, PartialEq<String> and PartialEq<bool>   *)
(* for Value<T>, and number_impls!: PartialEq<$ty> for Value<T>, for       *)
(* &Value<T> and &mut Value<T>, and PartialEq<Value<T>> for $ty.  A        *)
(* primitive number is its numeric value; T::Number: PartialEq<$ty>        *)
(* compares the stored value with it.                                      *)
(***************************************************************************)
Number_eq_primitive(n, x) == n.v = x

Value_eq_str(v, other) == IF v.tag = "String" THEN v.s = other ELSE FALSE

Value_eq_String(v, other) == IF v.tag = "String" THEN v.s = other ELSE FALSE

Value_eq_bool_Truthy(v, other) ==
    IF v.tag = "Boolean" THEN v.b = other
    ELSE IF v.tag = "Null" THEN ~other
    ELSE other

Value_eq_bool(v, other) == IF v.tag = "Boolean" THEN v.b = other ELSE FALSE

Value_eq_number(v, other) ==
    IF v.tag = "Number" THEN Number_eq_primitive(v.n, other) ELSE FALSE

ValueBorrow_eq_number(v, other) ==
    IF v.tag = "Number" THEN Number_eq_primitive(v.n, other) ELSE FALSE

number_eq_Value(x, other) ==
    IF other.tag = "Number" THEN Number_eq_primitive(other.n, x) ELSE FALSE

(***************************************************************************)
(* value.rs: impl Hash for Value<T>.  A hash is the sequence of items fed  *)
(* to the Hasher.  No discriminant is written: Null feeds nothing, the     *)
(* other variants feed their payload.  A sequence payload feeds its length *)
(* and then its elements; a key feeds its text.                            *)
(***************************************************************************)
RECURSIVE Value_hash(_)

bool_hash(x) == <<x>>

Number_hash(n) == <<n>>

String_hash(t) == <<[str |-> t]>>

Key_hash(x) == String_hash(Key_as_ref(x))

Node_hash(n) == Value_hash(Json_into_value(n))

RECURSIVE Array_hash_from(_, _)
Array_hash_from(a, i) ==
    IF i > Len(a) THEN <<>> ELSE Node_hash(a[i]) \o Array_hash_from(a, i + 1)

Array_hash(a) == <<Len(a)>> \o Array_hash_from(a, 1)

RECURSIVE Object_hash_from(_, _)
Object_hash_from(o, i) ==
    IF i > Len(o) THEN <<>>
    ELSE Key_hash(o[i].key) \o Node_hash(o[i].value) \o Object_hash_from(o, i + 1)

Object_hash(o) == <<Len(o)>> \o Object_hash_from(o, 1)

Value_hash(v) ==
    IF v.tag = "Null" THEN <<>>
    ELSE IF v.tag = "Boolean" THEN bool_hash(v.b)
    ELSE IF v.tag = "Number" THEN Number_hash(v.n)
    ELSE IF v.tag = "String" THEN String_hash(v.s)
    ELSE IF v.tag = "Array" THEN Array_hash(v.a)
    ELSE Object_hash(v.o)

(***************************************************************************)
(* value.rs: impl PartialEq<Value<U>> for Value<T>.                        *)
(***************************************************************************)
Value_eq_EmptyCoerced(a, b) ==
    IF a.tag = "Null" /\ b.tag = "Null" THEN TRUE
    ELSE IF a.tag = "Boolean" /\ b.tag = "Boolean" THEN a.b = b.b
    ELSE IF a.tag = "Number" /\ b.tag = "Number" THEN Number_eq(a.n, b.n)
    ELSE IF a.tag = "String" /\ b.tag = "String" THEN String_eq(a.s, b.s)
    ELSE IF a.tag = "Array" /\ b.tag = "Array" THEN Array_eq(a.a, b.a)
    ELSE IF a.tag = "Object" /\ b.tag = "Object" THEN Object_eq(a.o, b.o)
    ELSE IF a.tag = "Array" /\ b.tag = "Object" THEN Len(a.a) = 0 /\ Len(b.o) = 0
    ELSE IF a.tag = "Object" /\ b.tag = "Array" THEN Len(a.o) = 0 /\ Len(b.a) = 0
    ELSE FALSE

Value_eq_NoObjectArm(a, b) ==
    IF a.tag = "Null" /\ b.tag = "Null" THEN TRUE
    ELSE IF a.tag = "Boolean" /\ b.tag = "Boolean" THEN a.b = b.b
    ELSE IF a.tag = "Number" /\ b.tag = "Number" THEN Number_eq(a.n, b.n)
    ELSE IF a.tag = "String" /\ b.tag = "String" THEN String_eq(a.s, b.s)
    ELSE IF a.tag = "Array" /\ b.tag = "Array" THEN Array_eq(a.a, b.a)
    ELSE FALSE

Value_eq(a, b) ==
    IF a.tag = "Null" /\ b.tag = "Null" THEN TRUE
    ELSE IF a.tag = "Boolean" /\ b.tag = "Boolean" THEN a.b = b.b
    ELSE IF a.tag = "Number" /\ b.tag = "Number" THEN Number_eq(a.n, b.n)
    ELSE IF a.tag = "String" /\ b.tag = "String" THEN String_eq(a.s, b.s)
    ELSE IF a.tag = "Array" /\ b.tag = "Array" THEN Array_eq(a.a, b.a)
    ELSE IF a.tag = "Object" /\ b.tag = "Object" THEN Object_eq(a.o, b.o)
    ELSE FALSE

(***************************************************************************)
(* value.rs: impl PartialOrd<Value<U>> for Value<T>.  The arms are tried   *)
(* in the order of the match.                                              *)
(***************************************************************************)
Value_partial_cmp_With(a, b, arrayRest, boolNull, objectRest) ==
    IF a.tag = "Null" /\ b.tag = "Null" THEN Some(Equal)
    ELSE IF a.tag = "Null" THEN Some(Less)
    ELSE IF a.tag = "Boolean" /\ b.tag = "Null" THEN Some(boolNull)
    ELSE IF a.tag = "Boolean" /\ b.tag = "Boolean" THEN bool_partial_cmp(a.b, b.b)
    ELSE IF a.tag = "Boolean" THEN Some(Less)
    ELSE IF a.tag = "Number" /\ b.tag \in {"Null", "Boolean"} THEN Some(Greater)
    ELSE IF a.tag = "Number" /\ b.tag = "Number" THEN Number_partial_cmp(a.n, b.n)
    ELSE IF a.tag = "Number" THEN Some(Less)
    ELSE IF a.tag = "String" /\ b.tag \in {"Null", "Boolean", "Number"} THEN Some(Greater)
    ELSE IF a.tag = "String" /\ b.tag = "String" THEN String_partial_cmp(a.s, b.s)
    ELSE IF a.tag = "String" THEN Some(Less)
    ELSE IF a.tag = "Array" /\ b.tag \in {"Null", "Boolean", "Number", "String"}
         THEN Some(Greater)
    ELSE IF a.tag = "Array" /\ b.tag = "Array" THEN Array_partial_cmp(a.a, b.a)
    ELSE IF a.tag = "Array" THEN Some(arrayRest)
    ELSE IF a.tag = "Object" /\ b.tag = "Object" THEN Object_partial_cmp(a.o, b.o)
    ELSE Some(objectRest)

Value_partial_cmp_ArrayAboveObject(a, b) ==
    Value_partial_cmp_With(a, b, Greater, Greater, Less)

Value_partial_cmp_BooleanBelowNull(a, b) ==
    Value_partial_cmp_With(a, b, Less, Less, Greater)

Value_partial_cmp_ObjectLess(a, b) ==
    Value_partial_cmp_With(a, b, Less, Greater, Less)

Value_partial_cmp_NullLess(a, b) ==
    IF a.tag = "Null" THEN Some(Less)
    ELSE Value_partial_cmp_With(a, b, Less, Greater, Greater)

Value_partial_cmp(a, b) ==
    IF a.tag = "Null" /\ b.tag = "Null" THEN Some(Equal)
    ELSE IF a.tag = "Null" THEN Some(Less)
    ELSE IF a.tag = "Boolean" /\ b.tag = "Null" THEN Some(Greater)
    ELSE IF a.tag = "Boolean" /\ b.tag = "Boolean" THEN bool_partial_cmp(a.b, b.b)
    ELSE IF a.tag = "Boolean" THEN Some(Less)
    ELSE IF a.tag = "Number" /\ b.tag \in {"Null", "Boolean"} THEN Some(Greater)
    ELSE IF a.tag = "Number" /\ b.tag = "Number" THEN Number_partial_cmp(a.n, b.n)
    ELSE IF a.tag = "Number" THEN Some(Less)
    ELSE IF a.tag = "String" /\ b.tag \in {"Null", "Boolean", "Number"} THEN Some(Greater)
    ELSE IF a.tag = "String" /\ b.tag = "String" THEN String_partial_cmp(a.s, b.s)
    ELSE IF a.tag = "String" THEN Some(Less)
    ELSE IF a.tag = "Array" /\ b.tag \in {"Null", "Boolean", "Number", "String"}
         THEN Some(Greater)
    ELSE IF a.tag = "Array" /\ b.tag = "Array" THEN Array_partial_cmp(a.a, b.a)
    ELSE IF a.tag = "Array" THEN Some(Less)
    ELSE IF a.tag = "Object" /\ b.tag = "Object" THEN Object_partial_cmp(a.o, b.o)
    ELSE Some(Greater)

(***************************************************************************)
(* The inputs: every value of the two backends whose arrays have at most   *)
(* MaxLen elements, whose objects take their keys in KeyTexts, and whose   *)
(* elements are themselves small nodes (two numbers of different kinds     *)
(* and an empty array).  Objects are built sorted by key, as BTreeMap   *)
(* keeps them.                                                             *)
(***************************************************************************)
Backends == {"MetaValue", "serde_json"}

PosInt(u) == [k |-> "PosInt", v |-> u]

Float(h) == [k |-> "Float", v |-> h]

RECURSIVE NatBits(_, _)
NatBits(n, i) ==
    IF n = 0 THEN {} ELSE (IF n % 2 = 1 THEN {i} ELSE {}) \cup NatBits(n \div 2, i + 1)

Nat32(n) == Real(FALSE, NatBits(n, 0))

NumberSet == {PosInt(Nat32(u)) : u \in 0..MaxNum} \cup {Float(Nat32(1))}

SeqsUpTo(S, n) == UNION {[1..m -> S] : m \in 0..n}

Wrap(B, v) == JsonNew_new(B, v, IF B = "MetaValue" THEN ChildMeta ELSE <<>>)

WrapKey(B, t) == JsonNew_new_key(B, t, IF B = "MetaValue" THEN ChildMeta ELSE <<>>)

LeafValues ==
    {Null} \cup {Boolean(b) : b \in BOOLEAN} \cup {Number(n) : n \in NumberSet}
           \cup {String(s) : s \in Strs}

ChildValues == {Number(PosInt(Nat32(0))), Number(Float(Nat32(1))), Array(<<>>)}

Children(B) == {Wrap(B, v) : v \in ChildValues}

Entries(B) == {[key |-> WrapKey(B, t), value |-> c] : t \in KeyTexts, c \in Children(B)}

SortedByKey(o) == \A i \in 1..(Len(o) - 1) : Key_cmp(o[i].key, o[i + 1].key) = Less

ArrayValues(B) == {Array(a) : a \in SeqsUpTo(Children(B), MaxLen)}

ObjectValues(B) ==
    {Object(o) : o \in {e \in SeqsUpTo(Entries(B), Cardinality(KeyTexts)) : SortedByKey(e)}}

Values(B) == LeafValues \cup ArrayValues(B) \cup ObjectValues(B)

Nodes ==
    {MetaValue_new(v, m) : v \in Values("MetaValue"), m \in Metas}
        \cup {serde_json_new(v) : v \in Values("serde_json")}

BackendOf(n) ==
    IF IsMetaValue(n) THEN "MetaValue"
    ELSE IF IsIValue(n) THEN "ijson"
    ELSE IF IsJsonValue(n) THEN "json"
    ELSE "serde_json"

(***************************************************************************)
(* The state: two backend nodes j and k, and the outcome res of the last   *)
(* operation applied to them.  a and b are the owned values taken from the *)
(* nodes (lib.rs, impl From<J> for Value<J>).                              *)
(***************************************************************************)
a == Value_from(j)

b == Value_from(k)

Init ==
    /\ j \in Nodes
    /\ k \in Nodes
    /\ res = [op |-> "none"]

ValueIs(v) ==
    [null |-> Value_is_null(v), bool |-> Value_is_bool(v), number |-> Value_is_number(v),
     string |-> Value_is_string(v), array |-> Value_is_array(v),
     object |-> Value_is_object(v)]

ValueAs(v) ==
    [bool |-> Value_as_bool(v), number |-> Value_as_number(v), str |-> Value_as_str(v),
     array |-> Value_as_array(v), object |-> Value_as_object(v),
     array_mut |-> Value_as_array_mut(v), object_mut |-> Value_as_object_mut(v)]

ViewIs(r) ==
    [null |-> View_is_null(r), bool |-> View_is_bool(r), number |-> View_is_number(r),
     string |-> View_is_string(r), array |-> View_is_array(r),
     object |-> View_is_object(r)]

ValueRefAs(r) ==
    [bool |-> ValueRef_as_bool(r), number |-> ValueRef_as_number(r),
     str |-> ValueRef_as_str(r), array |-> ValueRef_as_array(r),
     object |-> ValueRef_as_object(r)]

ValueMutAs(r) ==
    [bool |-> ValueMut_as_bool(r), number |-> ValueMut_as_number(r),
     str |-> ValueMut_as_str(r), array |-> ValueMut_as_array(r),
     object |-> ValueMut_as_object(r), array_mut |-> ValueMut_as_array_mut(r),
     object_mut |-> ValueMut_as_object_mut(r)]

JsonIs(n) ==
    [null |-> Json_is_null(n), bool |-> Json_is_bool(n), number |-> Json_is_number(n),
     string |-> Json_is_string(n), array |-> Json_is_array(n),
     object |-> Json_is_object(n)]

JsonAs(n) ==
    [bool |-> Json_as_bool(n), number |-> Json_as_number(n), str |-> Json_as_str(n),
     array |-> Json_as_array(n), object |-> Json_as_object(n),
     array_mut |-> Json_as_array_mut(n), object_mut |-> Json_as_object_mut(n)]

(* a == b and b == a, and a == a. *)
Eq ==
    /\ res' = [op |-> "eq", ab |-> Value_eq(a, b), ba |-> Value_eq(b, a),
               aa |-> Value_eq(a, a)]
    /\ UNCHANGED <<j, k>>

(* a.partial_cmp(&b) and b.partial_cmp(&a). *)
PartialCmp ==
    /\ res' = [op |-> "partial_cmp", ab |-> Value_partial_cmp(a, b),
               ba |-> Value_partial_cmp(b, a)]
    /\ UNCHANGED <<j, k>>

(* The is_* and as_* methods of the owned value a. *)
Classify ==
    /\ res' = [op |-> "classify", is |-> ValueIs(a), as |-> ValueAs(a)]
    /\ UNCHANGED <<j, k>>

(* a.as_value_ref() and the methods of the view. *)
AsValueRef ==
    /\ LET r == Value_as_value_ref(a)
       IN  res' = [op |-> "as_value_ref", view |-> r, is |-> ViewIs(r),
                   as |-> ValueRefAs(r)]
    /\ UNCHANGED <<j, k>>

(* a.as_value_mut() and the methods of the view. *)
AsValueMut ==
    /\ LET r == Value_as_value_mut(a)
       IN  res' = [op |-> "as_value_mut", view |-> r, is |-> ViewIs(r),
                   as |-> ValueMutAs(r)]
    /\ UNCHANGED <<j, k>>

(* The views and the provided is_* and as_* methods of the node j. *)
JsonDerived ==
    /\ res' = [op |-> "json", ref |-> Json_as_value_ref(j), mut |-> Json_as_value_mut(j),
               is |-> JsonIs(j), as |-> JsonAs(j)]
    /\ UNCHANGED <<j, k>>

(* The emptiness tests of the node j. *)
IsEmpty ==
    /\ res' = [op |-> "is_empty", array |-> Json_is_empty_array(j),
               object |-> Json_is_empty_object(j),
               array_or_object |-> Json_is_empty_array_or_object(j)]
    /\ UNCHANGED <<j, k>>

Next ==
    \/ Eq
    \/ PartialCmp
    \/ Classify
    \/ AsValueRef
    \/ AsValueMut
    \/ JsonDerived
    \/ IsEmpty

Spec == Init /\ [][Next]_vars

(***************************************************************************)
(* The operations on one node: decomposing and rebuilding it, the numeric  *)
(* coercions, and taking the value out of it.  j is the node, k the node   *)
(* rebuilt from its parts.  The numbers are those a serde_json::Number can *)
(* hold: a u64 (PosInt), a negative i64 (NegInt) or a finite f64 (Float).  *)
(***************************************************************************)
NegInt(i) == [k |-> "NegInt", v |-> i]

Magnitudes == {B \in SUBSET BitPositions : Cardinality(B) <= MaxBits}

IsU64(B) == \A i \in B : 0 <= i /\ i <= 63

IsNegI64(B) == B # {} /\ (B = {63} \/ \A i \in B : 0 <= i /\ i <= 62)

IsF64(B) == B = {} \/ (MaxBit(B) - MinBit(B) <= 52 /\ MaxBit(B) <= 1023 /\ MinBit(B) >= -1022)

SerdeNumbers ==
    {PosInt(Real(FALSE, B)) : B \in {M \in Magnitudes : IsU64(M)}}
        \cup {NegInt(Real(TRUE, B)) : B \in {M \in Magnitudes : IsNegI64(M)}}
        \cup {Float(Real(FALSE, B)) : B \in {M \in Magnitudes : IsF64(M)}}
        \cup {Float(Real(TRUE, B)) : B \in {M \in Magnitudes : IsF64(M) /\ M # {}}}

IValueLeaves ==
    {[iv |-> "NULL"], [iv |-> "TRUE"], [iv |-> "FALSE"]}
        \cup {[iv |-> "Number", n |-> n] : n \in NumberSet}
        \cup {[iv |-> "String", s |-> t] : t \in Strs}

IValueChildren == {[iv |-> "NULL"], [iv |-> "FALSE"], [iv |-> "Number", n |-> PosInt(Nat32(0))]}

IValues ==
    IValueLeaves
        \cup {[iv |-> "Array", a |-> s] : s \in SeqsUpTo(IValueChildren, MaxLen)}
        \cup {[iv |-> "Object", o |-> o] :
                o \in {e \in SeqsUpTo({[key |-> ijson_new_key(t), value |-> c] :
                                          t \in KeyTexts, c \in IValueChildren},
                                       Cardinality(KeyTexts)) : SortedByKey(e)}}

JsonValues ==
    {[jv |-> "Null"], [jv |-> "Boolean", b |-> TRUE], [jv |-> "Number", n |-> PosInt(Nat32(1))],
     [jv |-> "String", s |-> <<1>>], [jv |-> "Array", a |-> <<>>],
     [jv |-> "Array", a |-> <<[jv |-> "Null"]>>], [jv |-> "Object", o |-> <<>>]}

NodeInputs ==
    Nodes \cup IValues \cup JsonValues
        \cup {serde_json_new(Number(n)) : n \in SerdeNumbers}

InitNode ==
    /\ j \in NodeInputs
    /\ k = j
    /\ res = [op |-> "none"]

(* (value, meta) = j.into_parts(), then JsonNew::new(value, meta) and      *)
(* value.with(meta).                                                       *)
RoundTrip ==
    /\ BackendOf(j) # "json"
    /\ LET parts == Json_into_parts(j)
       IN  /\ k' = JsonNew_new(BackendOf(j), parts[1], parts[2])
           /\ res' = [op |-> "round_trip", value |-> parts[1], meta |-> parts[2],
                      with |-> Value_with(BackendOf(j), parts[1], parts[2])]
    /\ UNCHANGED j

(* The Number methods of the serde_json::Number held by the node j. *)
NumberCoerce ==
    /\ BackendOf(j) = "serde_json"
    /\ j.sj = "Number"
    /\ res' = [op |-> "number", n |-> j.n, as |-> NumberAs(j.n)]
    /\ UNCHANGED <<j, k>>

(* The numeric accessors of the two views of the serde_json node j. *)
ViewCoerce ==
    /\ BackendOf(j) = "serde_json"
    /\ res' = [op |-> "view", ref |-> ViewNumberAs(Json_as_value_ref(j)),
               mut |-> ViewNumberAs(Json_as_value_mut(j))]
    /\ UNCHANGED <<j, k>>

(* The Number methods of Zero. *)
ZeroCoerce ==
    /\ res' = [op |-> "zero", as |-> NumberAs(Zero)]
    /\ UNCHANGED <<j, k>>

(* j.value_mut().take() on a MetaValue node. *)
Take ==
    /\ IsMetaValue(j)
    /\ LET t == Value_take(MetaValue_value(j))
       IN  /\ j' = [j EXCEPT !.value = t.self]
           /\ res' = [op |-> "take", out |-> t.out]
    /\ UNCHANGED k

(* Value::default(). *)
Default ==
    /\ res' = [op |-> "default", out |-> Value_default]
    /\ UNCHANGED <<j, k>>

(* A call that goes through a view: the panic of the view method, or the   *)
(* outcome computed from the view.                                         *)
Through(view, outcome) == IF view = Panic THEN Panic ELSE outcome

(* Every required and provided method of the trait Json on the node j. *)
TraitCalls ==
    /\ LET r == Json_as_value_ref(j)
           m == Json_as_value_mut(j)
       IN  res' = [op |-> "trait", ref |-> r, mut |-> m,
                   metadata |-> Json_metadata(j), value |-> Json_into_value(j),
                   is |-> Through(r, JsonIs(j)), as |-> Through(r, JsonAs(j)),
                   as_mut |-> Through(m, [array_mut |-> Json_as_array_mut(j),
                                          object_mut |-> Json_as_object_mut(j)])]
    /\ UNCHANGED <<j, k>>

(* The owned value v of the node j: v.as_value_ref().cloned(),              *)
(* v.as_value_mut().cloned(), v.clone(), and cloned() on the node's view.  *)
Cloned ==
    /\ BackendOf(j) # "json"
    /\ res' = [op |-> "cloned", v |-> a,
               ref |-> ValueRef_cloned(Value_as_value_ref(a)),
               mut |-> ValueMut_cloned(Value_as_value_mut(a)),
               clone |-> Value_clone(a),
               node |-> ValueRef_cloned(Json_as_value_ref(j))]
    /\ UNCHANGED <<j, k>>

(* The builder of the variant of a, applied to the payload of a and the    *)
(* metadata m; the two empty-collection builders; new_key on the text t.   *)
Build ==
    /\ BackendOf(j) # "json"
    /\ \E m \in (IF IsMetaValue(j) THEN Metas ELSE {<<>>}), t \in KeyTexts :
          LET B == BackendOf(j)
              built == IF a.tag = "Null" THEN JsonNew_null(B, m)
                       ELSE IF a.tag = "Boolean" THEN JsonNew_boolean(B, a.b, m)
                       ELSE IF a.tag = "Number" THEN JsonNew_number(B, a.n, m)
                       ELSE IF a.tag = "String" THEN JsonNew_string(B, a.s, m)
                       ELSE IF a.tag = "Array" THEN JsonNew_array(B, a.a, m)
                       ELSE JsonNew_object(B, a.o, m)
          IN  res' = [op |-> "build", m |-> m, t |-> t, built |-> built,
                      empty_array |-> JsonNew_empty_array(B, m),
                      empty_object |-> JsonNew_empty_object(B, m),
                      key |-> JsonNew_new_key(B, t, m)]
    /\ UNCHANGED <<j, k>>

(* a == t for a &str and a String, a == x for a bool, a == n, &a == n and   *)
(* n == a for a primitive number.                                          *)
PrimitiveEq ==
    /\ BackendOf(j) # "json"
    /\ \E t \in Strs, x \in BOOLEAN, n \in {Nat32(u) : u \in 0..MaxNum} :
          res' = [op |-> "primitive", t |-> t, x |-> x, n |-> n,
                  eq_str |-> Value_eq_str(a, t), eq_String |-> Value_eq_String(a, t),
                  eq_bool |-> Value_eq_bool(a, x), eq_number |-> Value_eq_number(a, n),
                  borrow_eq_number |-> ValueBorrow_eq_number(a, n),
                  number_eq |-> number_eq_Value(n, a)]
    /\ UNCHANGED <<j, k>>

NextNode ==
    \/ RoundTrip
    \/ PrimitiveEq
    \/ Build
    \/ Cloned
    \/ TraitCalls
    \/ NumberCoerce
    \/ ViewCoerce
    \/ ZeroCoerce
    \/ Take
    \/ Default

SpecNode == InitNode /\ [][NextNode]_vars

(***************************************************************************)
(* Properties.                                                             *)
(***************************************************************************)
TagRank(t) ==
    CASE t = "Null" -> 0
      [] t = "Boolean" -> 1
      [] t = "Number" -> 2
      [] t = "String" -> 3
      [] t = "Array" -> 4
      [] t = "Object" -> 5

Reverse(c) ==
    IF ~c.some THEN None
    ELSE IF c.v = Less THEN Some(Greater)
    ELSE IF c.v = Greater THEN Some(Less)
    ELSE Some(Equal)

Le(c) == c \in {Some(Less), Some(Equal)}

ExactlyOne(is) == Cardinality({f \in DOMAIN is : is[f]}) = 1

PayloadOr(v, tag, p) == IF v.tag = tag THEN Some(p) ELSE None

(* C1: when the tags of a and b differ, a.partial_cmp(b) is Some(Less) if  *)
(* a's tag comes before b's in Null < Boolean < Number < String < Array <  *)
(* Object and Some(Greater) if it comes after, whatever the payloads.      *)
C1_TagOrder ==
    (res.op = "partial_cmp" /\ a.tag # b.tag) =>
        res.ab = Some(IF TagRank(a.tag) < TagRank(b.tag) THEN Less ELSE Greater)

C1_Witness ==
    /\ res.op = "partial_cmp"
    /\ a.tag = "Array" /\ Len(a.a) = MaxLen
    /\ b.tag = "Object" /\ Len(b.o) = 0
    /\ res.ab = Some(Less)

(* C2: a.partial_cmp(b) is the reverse of b.partial_cmp(a): Less against   *)
(* Greater, Equal against Equal, None against None.                        *)
C2_Mirror == res.op = "partial_cmp" => res.ab = Reverse(res.ba)

C2_Witness ==
    /\ res.op = "partial_cmp"
    /\ BackendOf(j) # BackendOf(k)
    /\ a.tag = "Array" /\ b.tag = "Array"
    /\ Len(a.a) = 2 /\ Len(b.a) = 2
    /\ res.ab = None /\ res.ba = None

(* C3: a == b is false when the tags differ, true for Null and Null, and   *)
(* the equality of the two payloads when the tags match.                   *)
C3_NoCoercion ==
    res.op = "eq" =>
        res.ab = (IF a.tag # b.tag THEN FALSE
                  ELSE IF a.tag = "Null" THEN TRUE
                  ELSE IF a.tag = "Boolean" THEN a.b = b.b
                  ELSE IF a.tag = "Number" THEN Number_eq(a.n, b.n)
                  ELSE IF a.tag = "String" THEN String_eq(a.s, b.s)
                  ELSE IF a.tag = "Array" THEN Array_eq(a.a, b.a)
                  ELSE Object_eq(a.o, b.o))

C3_Witness ==
    /\ res.op = "eq"
    /\ a.tag = "Array" /\ Len(a.a) = 0
    /\ b.tag = "Object" /\ Len(b.o) = 0
    /\ res.ab = FALSE

(* C4: equality is reflexive (a == a) and symmetric across the two         *)
(* backends (a == b iff b == a).                                           *)
C4_ReflexiveSymmetric == res.op = "eq" => (res.aa /\ (res.ab <=> res.ba))

C4_Witness ==
    /\ res.op = "eq"
    /\ BackendOf(j) # BackendOf(k)
    /\ a.tag = "Object" /\ Len(a.o) = 2
    /\ res.aa /\ res.ab /\ res.ba

(* C5: over the values of one backend, partial_cmp is transitive, also     *)
(* across tags: a <= b and b <= c give a <= c, and a == b and b == c give  *)
(* a == c.                                                                 *)
C5_Transitive ==
    (res.op = "partial_cmp" /\ BackendOf(j) = BackendOf(k)) =>
        \A c \in Values(BackendOf(j)) :
            LET bc == Value_partial_cmp(b, c)
                ac == Value_partial_cmp(a, c)
            IN  /\ (Le(res.ab) /\ Le(bc)) => Le(ac)
                /\ (res.ab = Some(Equal) /\ bc = Some(Equal)) => ac = Some(Equal)
                /\ (Value_eq(a, b) /\ Value_eq(b, c)) => Value_eq(a, c)

C5_Witness ==
    /\ res.op = "partial_cmp"
    /\ BackendOf(j) = BackendOf(k)
    /\ a.tag = "Boolean" /\ b.tag = "Object"
    /\ res.ab = Some(Less)
    /\ \E c \in Values(BackendOf(j)) :
           /\ c.tag = "Object"
           /\ Value_partial_cmp(b, c) = Some(Less)
           /\ Value_partial_cmp(a, c) = Some(Less)

(* C6: on Value, ValueRef and ValueMut, is_X() is true exactly when the    *)
(* matching as_X() is Some, and the payload returned is the one stored in  *)
(* the variant.                                                            *)
C6_Duality ==
    res.op \in {"classify", "as_value_ref", "as_value_mut"} =>
        /\ res.is.bool <=> res.as.bool.some
        /\ res.is.number <=> res.as.number.some
        /\ res.is.string <=> res.as.str.some
        /\ res.is.array <=> res.as.array.some
        /\ res.is.object <=> res.as.object.some
        /\ res.as.bool = (IF a.tag = "Boolean" THEN Some(a.b) ELSE None)
        /\ res.as.number = (IF a.tag = "Number" THEN Some(a.n) ELSE None)
        /\ res.as.str = (IF a.tag = "String" THEN Some(a.s) ELSE None)
        /\ res.as.array = (IF a.tag = "Array" THEN Some(a.a) ELSE None)
        /\ res.as.object = (IF a.tag = "Object" THEN Some(a.o) ELSE None)

C6_Witness ==
    /\ res.op = "as_value_ref"
    /\ res.is.object /\ ~res.is.array
    /\ res.as.object.some /\ Len(res.as.object.v) = 2
    /\ ~res.as.array.some

(* C7: on a backend node, every provided predicate and extractor of the    *)
(* Json trait answers as the view does, as_array_mut and as_object_mut are *)
(* Some exactly when is_array and is_object hold, and is_X guarantees that *)
(* as_X returns the payload of the node.                                   *)
C7_DerivedAsView ==
    res.op = "json" =>
        /\ res.is = ViewIs(res.ref)
        /\ res.as.bool = ValueRef_as_bool(res.ref)
        /\ res.as.number = ValueRef_as_number(res.ref)
        /\ res.as.str = ValueRef_as_str(res.ref)
        /\ res.as.array = ValueRef_as_array(res.ref)
        /\ res.as.object = ValueRef_as_object(res.ref)
        /\ res.as.array_mut.some <=> res.is.array
        /\ res.as.object_mut.some <=> res.is.object
        /\ res.is.bool => res.as.bool = Some(a.b)
        /\ res.is.number => res.as.number = Some(a.n)
        /\ res.is.string => res.as.str = Some(a.s)
        /\ res.is.array => (res.as.array = Some(a.a) /\ res.as.array_mut = Some(a.a))
        /\ res.is.object => (res.as.object = Some(a.o) /\ res.as.object_mut = Some(a.o))

C7_Witness ==
    /\ res.op = "json"
    /\ BackendOf(j) = "serde_json"
    /\ res.is.array
    /\ res.as.array_mut.some /\ Len(res.as.array_mut.v) = MaxLen
    /\ ~res.as.object_mut.some

(* C8: exactly one of is_null, is_bool, is_number, is_string, is_array,    *)
(* is_object holds of a Value, a ValueRef and a ValueMut, and a view taken *)
(* with as_value_ref or as_value_mut has the tag of the value it was taken *)
(* from.                                                                   *)
C8_OneVariant ==
    /\ res.op \in {"classify", "as_value_ref", "as_value_mut", "json"} =>
           ExactlyOne(res.is)
    /\ res.op \in {"as_value_ref", "as_value_mut"} =>
           (res.view.tag = a.tag /\ res.is = ValueIs(a))
    /\ res.op = "json" =>
           (res.ref.tag = a.tag /\ res.mut.tag = a.tag /\ res.is = ValueIs(a))

C8_Witness ==
    /\ res.op = "json"
    /\ BackendOf(j) = "serde_json"
    /\ j.sj = "Bool"
    /\ res.ref.tag = "Boolean" /\ res.mut.tag = "Boolean"
    /\ res.is.bool

(* C9: is_empty_object is true exactly when the node is an Object with no  *)
(* entry, and false for every other node, an empty Array included.         *)
C9_IsEmptyObject ==
    res.op = "is_empty" => (res.object <=> (a.tag = "Object" /\ Len(a.o) = 0))

(* C10: is_empty_array is true exactly for an Array of length 0,           *)
(* is_empty_array_or_object exactly for an empty Array or an empty Object, *)
(* and is_empty_array_or_object() = (is_empty_array() or                   *)
(* is_empty_object()) on every node.                                       *)
C10_IsEmptyArrayOrObject ==
    res.op = "is_empty" =>
        /\ res.array <=> (a.tag = "Array" /\ Len(a.a) = 0)
        /\ res.array_or_object <=>
               ((a.tag = "Array" /\ Len(a.a) = 0) \/ (a.tag = "Object" /\ Len(a.o) = 0))
        /\ res.array_or_object = (res.array \/ res.object)

(***************************************************************************)
(* The comparisons and hashes of two nodes of the reference backend whose  *)
(* children and keys carry any metadata.                                   *)
(***************************************************************************)
MetaChildren ==
    {MetaValue_new(Null, m) : m \in Metas} \cup {MetaValue_new(Boolean(TRUE), 0)}

MetaKeys == {JsonNew_new_key("MetaValue", t, m) : t \in KeyTexts, m \in Metas}

MetaEntries == {[key |-> x, value |-> c] : x \in MetaKeys, c \in MetaChildren}

MetaValues ==
    {Null, Boolean(TRUE), Number(PosInt(Nat32(1))), String(<<1>>)}
        \cup {Array(s) : s \in SeqsUpTo(MetaChildren, MaxLen)}
        \cup {Object(o) : o \in {e \in SeqsUpTo(MetaEntries, Cardinality(KeyTexts)) :
                                      SortedByKey(e)}}

MetaNodes == {MetaValue_new(v, m) : v \in MetaValues, m \in Metas}

InitMeta ==
    /\ j \in MetaNodes
    /\ k \in MetaNodes
    /\ res = [op |-> "none"]

(* The hashes of the nodes j and k. *)
Hash ==
    /\ res' = [op |-> "hash", a |-> Node_hash(j), b |-> Node_hash(k)]
    /\ UNCHANGED <<j, k>>

(* The first keys x of the object j and y of the object k: x == y,         *)
(* x.cmp(&y) and x.partial_cmp(&y), both ways round.                       *)
KeyCompare ==
    /\ a.tag = "Object" /\ Len(a.o) > 0
    /\ b.tag = "Object" /\ Len(b.o) > 0
    /\ LET x == a.o[1].key
           y == b.o[1].key
       IN  res' = [op |-> "key", x |-> x, y |-> y,
                   eq |-> Key_eq(x, y), cmp |-> Key_cmp(x, y),
                   partial_cmp |-> Key_partial_cmp(x, y),
                   eq_rev |-> Key_eq(y, x), cmp_rev |-> Key_cmp(y, x)]
    /\ UNCHANGED <<j, k>>

NextMeta ==
    \/ Eq
    \/ PartialCmp
    \/ Hash
    \/ KeyCompare

SpecMeta == InitMeta /\ [][NextMeta]_vars

(* The structural content of a value: its tree with every annotation of a  *)
(* node or a key erased.                                                   *)
RECURSIVE Structure(_)
Structure(v) ==
    IF v.tag = "Array" THEN Array([i \in 1..Len(v.a) |-> Structure(v.a[i].value)])
    ELSE IF v.tag = "Object"
         THEN Object([i \in 1..Len(v.o) |->
                        [key |-> v.o[i].key.key, value |-> Structure(v.o[i].value.value)]])
    ELSE v

SameStructure == Structure(a) = Structure(b)

(***************************************************************************)
(* Edits through the mutable accessors of a node.  j is the node, k the    *)
(* node as it was before the first edit.  lib.rs (JsonMut): the array of a *)
(* node supports push_back and pop_back, the object insert and remove;     *)
(* reference.rs (ValueMut): a number or a string is assigned through the   *)
(* &mut of the view.                                                       *)
(***************************************************************************)
Array_push_back(s, c) == Append(s, c)

Array_pop_back(s) == IF Len(s) = 0 THEN s ELSE SubSeq(s, 1, Len(s) - 1)

Object_insert(o, key, c) ==
    IF \E i \in 1..Len(o) : Key_eq(o[i].key, key)
    THEN [i \in 1..Len(o) |->
            IF Key_eq(o[i].key, key) THEN [o[i] EXCEPT !.value = c] ELSE o[i]]
    ELSE SelectSeq(o, LAMBDA e : Key_cmp(e.key, key) = Less)
            \o <<[key |-> key, value |-> c]>>
            \o SelectSeq(o, LAMBDA e : Key_cmp(e.key, key) = Greater)

Object_remove(o, t) == SelectSeq(o, LAMBDA e : Key_as_ref(e.key) # t)

InitMut ==
    /\ j \in Nodes \cup IValues
    /\ k = j
    /\ res = [op |-> "none"]

(* j.as_array_mut() is Some(a): a.push_back(c). *)
PushBack ==
    /\ LET r == Json_as_array_mut(j)
       IN  /\ r.some
           /\ Len(r.v) < MaxLen
           /\ \E c \in Children(BackendOf(j)) :
                 j' = ValueMut_store(j, Json_as_value_mut(j), Array_push_back(r.v, c))
    /\ res' = [op |-> "push_back"]
    /\ UNCHANGED k

(* j.as_array_mut() is Some(a): a.pop_back(). *)
PopBack ==
    /\ LET r == Json_as_array_mut(j)
       IN  /\ r.some
           /\ j' = ValueMut_store(j, Json_as_value_mut(j), Array_pop_back(r.v))
    /\ res' = [op |-> "pop_back"]
    /\ UNCHANGED k

(* j.as_object_mut() is Some(o): o.insert(key, c). *)
Insert ==
    /\ LET r == Json_as_object_mut(j)
       IN  /\ r.some
           /\ \E e \in Entries(BackendOf(j)) :
                 j' = ValueMut_store(j, Json_as_value_mut(j),
                                     Object_insert(r.v, e.key, e.value))
    /\ res' = [op |-> "insert"]
    /\ UNCHANGED k

(* j.as_object_mut() is Some(o): o.remove(t). *)
Remove ==
    /\ LET r == Json_as_object_mut(j)
       IN  /\ r.some
           /\ \E t \in KeyTexts :
                 j' = ValueMut_store(j, Json_as_value_mut(j), Object_remove(r.v, t))
    /\ res' = [op |-> "remove"]
    /\ UNCHANGED k

(* The view j.as_value_mut() is Number(n) or String(s): *n = x or *s = x.  *)
Assign ==
    /\ LET m == Json_as_value_mut(j)
       IN  \/ /\ m.tag = "Number"
              /\ \E x \in NumberSet : j' = ValueMut_store(j, m, x)
           \/ /\ m.tag = "String"
              /\ \E x \in Strs : j' = ValueMut_store(j, m, x)
    /\ res' = [op |-> "assign"]
    /\ UNCHANGED k

(* The view j.as_value_mut() is taken and dropped; a Boolean view holds    *)
(* the bool by value and a Null view holds nothing, so there is nothing to *)
(* write through.                                                          *)
Borrow ==
    /\ LET m == Json_as_value_mut(j)
       IN  /\ m.tag \in {"Null", "Boolean"}
           /\ \E x \in BOOLEAN : j' = ValueMut_store(j, m, x)
    /\ res' = [op |-> "borrow"]
    /\ UNCHANGED k

(* The read accessors of the node j. *)
Read ==
    /\ res' = [op |-> "read", array |-> Json_as_array(j), object |-> Json_as_object(j),
               ref |-> Json_as_value_ref(j),
               is_empty_array |-> Json_is_empty_array(j),
               is_empty_array_or_object |-> Json_is_empty_array_or_object(j)]
    /\ UNCHANGED <<j, k>>

NextMut ==
    \/ PushBack
    \/ PopBack
    \/ Insert
    \/ Remove
    \/ Assign
    \/ Borrow
    \/ Read

SpecMut == InitMut /\ [][NextMut]_vars

(* What the node n holds, read from its representation. *)
Holder(n) == IF IsMetaValue(n) THEN n.value ELSE n

TagOf(n) ==
    IF IsMetaValue(n) THEN n.value.tag
    ELSE IF IsIValue(n) THEN (IF n.iv = "NULL" THEN "Null"
                              ELSE IF n.iv \in {"TRUE", "FALSE"} THEN "Boolean"
                              ELSE n.iv)
    ELSE IF n.sj = "Bool" THEN "Boolean" ELSE n.sj

(***************************************************************************)
(* The example trees: {"a": 1, "b": [true, null]} built in each backend,   *)
(* with each metadata, and the edit that replaces the array under "b" by   *)
(* [true] through as_object_mut.  The key texts "a" and "b" are <<1>> and  *)
(* <<2>>.                                                                  *)
(***************************************************************************)
ExampleSettings ==
    {<<"MetaValue", m>> : m \in Metas} \cup {<<"serde_json", <<>>>>, <<"ijson", <<>>>>}

ExampleArray(B, m, long) ==
    IF long THEN Array(<<JsonNew_new(B, Boolean(TRUE), m), JsonNew_new(B, Null, m)>>)
    ELSE Array(<<JsonNew_new(B, Boolean(TRUE), m)>>)

ExampleTree(B, m) ==
    JsonNew_new(B, Object(<<[key |-> JsonNew_new_key(B, <<1>>, m),
                             value |-> JsonNew_new(B, Number(PosInt(Nat32(1))), m)],
                            [key |-> JsonNew_new_key(B, <<2>>, m),
                             value |-> JsonNew_new(B, ExampleArray(B, m, TRUE), m)]>>), m)

(* n.as_object_mut(), then the value under the key text t is replaced by   *)
(* the node c.                                                             *)
ReplaceEntry(n, t, c) ==
    LET o == Json_as_object_mut(n)
    IN  IF ~o.some THEN n
        ELSE ValueMut_store(n, Json_as_value_mut(n),
                            [i \in 1..Len(o.v) |->
                                IF Key_as_ref(o.v[i].key) = t
                                THEN [o.v[i] EXCEPT !.value = c] ELSE o.v[i]])

ShortB(n) ==
    JsonNew_new(BackendOf(n), ExampleArray(BackendOf(n), Json_metadata(n), FALSE),
                Json_metadata(n))

InitExample ==
    /\ j \in {ExampleTree(e[1], e[2]) : e \in ExampleSettings}
    /\ k \in {ExampleTree(e[1], e[2]) : e \in ExampleSettings}
    /\ res = [op |-> "none"]

ReplaceB ==
    /\ \/ j' = ReplaceEntry(j, <<2>>, ShortB(j)) /\ UNCHANGED k
       \/ k' = ReplaceEntry(k, <<2>>, ShortB(k)) /\ UNCHANGED j
    /\ res' = [op |-> "replace"]

NextExample ==
    \/ Eq
    \/ PartialCmp
    \/ ReplaceB

SpecExample == InitExample /\ [][NextExample]_vars

(* The length of the array under "b" in the owned value v. *)
LenB(v) == Len(Value_from(v.o[2].value).a)

(***************************************************************************)
(* C11: decomposing a node of any constructible backend with into_parts    *)
(* and rebuilding it with JsonNew::new, or with Value::with, gives a node  *)
(* of the same backend with the same variant and payload, logically equal  *)
(* to the original.                                                        *)
(***************************************************************************)
C11_RoundTrip ==
    res.op = "round_trip" =>
        /\ BackendOf(k) = BackendOf(j)
        /\ Json_into_parts(k)[1] = Json_into_parts(j)[1]
        /\ Json_as_value_ref(k) = Json_as_value_ref(j)
        /\ Value_eq(Value_from(k), Value_from(j))
        /\ res.with = k

C11_Witness ==
    /\ res.op = "round_trip"
    /\ IsIValue(j)
    /\ j.iv = "FALSE"
    /\ k = j

(***************************************************************************)
(* C12: two nodes of the reference backend with the same structural        *)
(* content compare equal, order as Equal and hash identically, whatever    *)
(* metadata the root, a descendant or a key carries.                       *)
(***************************************************************************)
C12_MetadataIrrelevant ==
    (IsMetaValue(j) /\ IsMetaValue(k) /\ SameStructure) =>
        /\ res.op = "eq" => res.ab /\ res.ba
        /\ res.op = "partial_cmp" => res.ab = Some(Equal) /\ res.ba = Some(Equal)
        /\ res.op = "hash" => res.a = res.b

C12_Witness ==
    /\ res.op = "hash"
    /\ SameStructure
    /\ a.tag = "Object" /\ Len(a.o) > 0
    /\ a.o[1].key.meta # b.o[1].key.meta
    /\ a.o[1].value.meta # b.o[1].value.meta
    /\ j.meta # k.meta

(* The order of two texts, stated directly: s is below t when, at the      *)
(* first position where they differ, s has ended or holds the smaller      *)
(* unit.                                                                   *)
TextLess(s, t) ==
    \E i \in 1..(Len(t)) :
        /\ \A h \in 1..(i - 1) : h <= Len(s) /\ s[h] = t[h]
        /\ (i > Len(s) \/ (i <= Len(s) /\ s[i] < t[i]))

TextOrder(s, t) == IF s = t THEN Equal ELSE IF TextLess(s, t) THEN Less ELSE Greater

(***************************************************************************)
(* C13: for two keys of the reference backend, == holds exactly when the   *)
(* texts are equal, cmp is the order of the texts, partial_cmp is          *)
(* Some(cmp), cmp is Equal exactly when == holds, and no choice of         *)
(* metadata on either key changes any of these results.                    *)
(***************************************************************************)
C13_KeyByText ==
    res.op = "key" =>
        /\ res.eq = (res.x.key = res.y.key)
        /\ res.cmp = TextOrder(res.x.key, res.y.key)
        /\ res.partial_cmp = Some(res.cmp)
        /\ (res.cmp = Equal) = res.eq
        /\ res.eq_rev = res.eq
        /\ Some(res.cmp_rev) = Reverse(Some(res.cmp))
        /\ \A m \in Metas, n \in Metas :
              LET x == [res.x EXCEPT !.meta = m]
                  y == [res.y EXCEPT !.meta = n]
              IN  /\ Key_eq(x, y) = res.eq
                  /\ Key_cmp(x, y) = res.cmp
                  /\ Key_partial_cmp(x, y) = res.partial_cmp

C13_Witness ==
    /\ res.op = "key"
    /\ res.x.key = res.y.key
    /\ res.x.meta # res.y.meta
    /\ res.eq
    /\ res.cmp = Equal

(* The numbers a target type holds exactly, and the kinds of stored        *)
(* number.                                                                 *)
IsIntegral(x) == \A i \in x.bits : i >= 0

InUnsigned(x, w) == ~x.neg /\ \A i \in x.bits : 0 <= i /\ i <= w - 1

InSigned(x, w) ==
    /\ IsIntegral(x)
    /\ IF x.neg THEN x.bits = {w - 1} \/ \A i \in x.bits : i <= w - 2
       ELSE \A i \in x.bits : i <= w - 2

InF32(x) == x.bits = {} \/ (MaxBit(x.bits) - MinBit(x.bits) <= 23 /\ MaxBit(x.bits) <= 127)

InF64(x) == x.bits = {} \/ (MaxBit(x.bits) - MinBit(x.bits) <= 52 /\ MaxBit(x.bits) <= 1023)

StoredInteger(n) == n.k \in {"PosInt", "NegInt"}

IsSerdeNumberNode == BackendOf(j) = "serde_json" /\ j.sj = "Number"

Exactly(n, inRange) == IF StoredInteger(n) /\ inRange THEN Some(n.v) ELSE None

(***************************************************************************)
(* C14: each of as_u32, as_u64, as_i32 and as_i64 of a stored number is    *)
(* Some(x) exactly when the number is an integer within the range of the   *)
(* target, and then x is the stored number itself, never a wrapped or      *)
(* truncated value.                                                        *)
(***************************************************************************)
C14_ExactInteger ==
    res.op = "number" =>
        /\ res.as.u32 = Exactly(res.n, InUnsigned(res.n.v, 32))
        /\ res.as.u64 = Exactly(res.n, InUnsigned(res.n.v, 64))
        /\ res.as.i32 = Exactly(res.n, InSigned(res.n.v, 32))
        /\ res.as.i64 = Exactly(res.n, InSigned(res.n.v, 64))

(***************************************************************************)
(* C15: a negative number has as_u32 and as_u64 absent, through the Number *)
(* methods and through as_u32 and as_u64 of both views of its node.        *)
(***************************************************************************)
C15_NegativeNotUnsigned ==
    /\ (res.op = "number" /\ res.n.v.neg) =>
           res.as.u32 = None /\ res.as.u64 = None
    /\ (res.op = "view" /\ IsSerdeNumberNode /\ j.n.v.neg) =>
           /\ res.ref.u32 = None /\ res.ref.u64 = None
           /\ res.mut.u32 = None /\ res.mut.u64 = None

C15_Witness ==
    /\ res.op = "view"
    /\ IsSerdeNumberNode
    /\ j.n.k = "NegInt"
    /\ res.ref.i64 = Some(j.n.v)

(***************************************************************************)
(* C16: a number with a fractional part has all four integer coercions     *)
(* absent and as_f64 present with its value; an integer that an f64 holds  *)
(* exactly, such as 2^53, has as_f64 present with exactly that value.      *)
(***************************************************************************)
C16_Boundary ==
    res.op = "number" =>
        /\ ~IsIntegral(res.n.v) =>
              /\ res.as.u32 = None /\ res.as.u64 = None
              /\ res.as.i32 = None /\ res.as.i64 = None
              /\ res.as.f64 = Some(res.n.v)
        /\ (IsIntegral(res.n.v) /\ InF64(res.n.v)) => res.as.f64 = Some(res.n.v)

C16_Witness ==
    /\ res.op = "number"
    /\ res.n = Float(Real(FALSE, {-1, 0}))
    /\ res.as.f64 = Some(Real(FALSE, {-1, 0}))

C16_WitnessTwoTo53 ==
    /\ res.op = "number"
    /\ res.n = PosInt(Real(FALSE, {53}))
    /\ res.as.f64 = Some(Real(FALSE, {53}))

(***************************************************************************)
(* C17: as_f32 is Some(x) only when the stored number is exactly an f32,   *)
(* and then x is the stored number; a number that needs more precision or  *)
(* range has as_f32 absent while as_f32_lossy still returns a value.       *)
(***************************************************************************)
C17_ExactF32 ==
    res.op = "number" =>
        /\ res.as.f32.some => (InF32(res.n.v) /\ res.as.f32.v = res.n.v)
        /\ ~InF32(res.n.v) => (res.as.f32 = None /\ res.as.f32_lossy # Panic)

(***************************************************************************)
(* C18: as_f32_lossy and as_f64_lossy return a value for every stored      *)
(* number and never panic: the stored float (narrowed for f32) when there  *)
(* is one, an integer-to-float cast otherwise; when as_f64 is present,     *)
(* as_f64_lossy is that value.  The views return it for a number node and  *)
(* nothing for any other node.                                             *)
(***************************************************************************)
C18_LossyTotal ==
    /\ res.op = "number" =>
          /\ res.as.f32_lossy # Panic /\ res.as.f64_lossy # Panic
          /\ res.n.k = "Float" =>
                /\ res.as.f64_lossy = res.n.v
                /\ res.as.f32_lossy = cast_f64_f32(res.n.v)
          /\ StoredInteger(res.n) =>
                /\ res.as.f64_lossy = cast_int_f64(res.n.v)
                /\ res.as.f32_lossy \in
                      {cast_int_f32(res.n.v), cast_f64_f32(cast_int_f64(res.n.v))}
          /\ res.as.f64.some => res.as.f64_lossy = res.as.f64.v
    /\ res.op = "view" =>
          /\ res.mut = res.ref
          /\ IF IsSerdeNumberNode
             THEN /\ res.ref.f32_lossy = Some(Number_as_f32_lossy(j.n))
                  /\ res.ref.f64_lossy = Some(Number_as_f64_lossy(j.n))
                  /\ res.ref.f32_lossy.v # Panic /\ res.ref.f64_lossy.v # Panic
             ELSE res.ref.f32_lossy = None /\ res.ref.f64_lossy = None

C18_Witness ==
    /\ res.op = "number"
    /\ res.n = NegInt(Real(TRUE, {0, 24}))
    /\ res.as.f32_lossy = Real(TRUE, {24})
    /\ res.as.f64_lossy = Real(TRUE, {0, 24})

(***************************************************************************)
(* C19: Zero honours the Number contract: as_f32 and as_f64 are Some(0.0), *)
(* as_f32_lossy and as_f64_lossy are 0.0, and as_u32, as_u64, as_i32 and   *)
(* as_i64 are Some(0).                                                     *)
(***************************************************************************)
C19_ZeroContract ==
    res.op = "zero" =>
        /\ res.as.f32 = Some(Real(FALSE, {})) /\ res.as.f64 = Some(Real(FALSE, {}))
        /\ res.as.f32_lossy = Real(FALSE, {}) /\ res.as.f64_lossy = Real(FALSE, {})
        /\ res.as.u32 = Some(Real(FALSE, {})) /\ res.as.u64 = Some(Real(FALSE, {}))
        /\ res.as.i32 = Some(Real(FALSE, {})) /\ res.as.i64 = Some(Real(FALSE, {}))

(***************************************************************************)
(* C20: take returns the value held just before the call and leaves Null;  *)
(* a take on a value already taken returns Null; once taken the value      *)
(* stays Null; Value::default() is Null.                                   *)
(***************************************************************************)
C20_Take ==
    [][/\ (res'.op = "take" /\ <<j, res>>' # <<j, res>>) =>
            /\ res'.out = MetaValue_value(j)
            /\ MetaValue_value(j') = Null
            /\ res.op = "take" => res'.out = Null
       /\ (IsMetaValue(j) /\ MetaValue_value(j) = Null) => MetaValue_value(j') = Null
       /\ res'.op = "default" => res'.out = Null]_vars

C20_Witness ==
    /\ res.op = "take"
    /\ res.out = Array(<<MetaValue_new(Array(<<>>), ChildMeta)>>)
    /\ MetaValue_value(j) = Null

C20_WitnessSecond ==
    /\ res.op = "take"
    /\ res.out = Null
    /\ MetaValue_value(j) = Null

(***************************************************************************)
(* C21: on every backend, as_value_ref, as_value_mut, metadata, the owned  *)
(* value and every derived is_* and as_* call return normally; a failed    *)
(* extraction is None, never a panic.                                      *)
(***************************************************************************)
C21_Total ==
    res.op = "trait" =>
        /\ res.ref # Panic /\ res.mut # Panic
        /\ res.is # Panic /\ res.as # Panic /\ res.as_mut # Panic
        /\ res.metadata = Json_metadata(j)
        /\ res.value.tag = res.ref.tag

(***************************************************************************)
(* C22: the two example trees are equal whatever backend and metadata hold *)
(* them; once the array under "b" is [true] in one of them they are        *)
(* unequal and the tree with [true, null] ranks above the tree with        *)
(* [true].                                                                 *)
(***************************************************************************)
C22_Example ==
    /\ res.op = "eq" => (res.ab = (LenB(a) = LenB(b)) /\ res.ba = res.ab /\ res.aa)
    /\ res.op = "partial_cmp" =>
          /\ res.ab = IF LenB(a) = LenB(b) THEN Some(Equal)
                      ELSE IF LenB(a) > LenB(b) THEN Some(Greater)
                      ELSE Some(Less)
          /\ res.ba = Reverse(res.ab)

C22_Witness ==
    /\ res.op = "partial_cmp"
    /\ BackendOf(j) = "MetaValue" /\ BackendOf(k) = "serde_json"
    /\ LenB(a) = 2 /\ LenB(b) = 1
    /\ res.ab = Some(Greater)

(***************************************************************************)
(* C23: cloned() on either view of a value, and clone() on the value, give *)
(* an owned value with the same variant and payload, equal to the value,   *)
(* and the value is left as it was.                                        *)
(***************************************************************************)
C23_Cloned ==
    res.op = "cloned" =>
        /\ res.v = a
        /\ res.ref = a /\ res.mut = a /\ res.clone = a /\ res.node = a
        /\ res.ref.tag = Value_as_value_ref(a).tag
        /\ Value_eq(res.ref, a) /\ Value_eq(res.mut, a) /\ Value_eq(res.clone, a)

C23_Witness ==
    /\ res.op = "cloned"
    /\ a.tag = "Array"
    /\ Len(a.a) > 0
    /\ res.ref = a

(***************************************************************************)
(* C24: after any edits made through as_array_mut or as_object_mut, a call *)
(* of as_array, as_object, as_value_ref, is_empty_array or                 *)
(* is_empty_array_or_object on the node returns the current contents.      *)
(***************************************************************************)
C24_NoStaleData ==
    res.op = "read" =>
        /\ res.ref.tag = TagOf(j)
        /\ res.array = IF TagOf(j) = "Array" THEN Some(Holder(j).a) ELSE None
        /\ res.object = IF TagOf(j) = "Object" THEN Some(Holder(j).o) ELSE None
        /\ TagOf(j) = "Array" => res.ref.p = Holder(j).a
        /\ TagOf(j) = "Object" => res.ref.p = Holder(j).o
        /\ res.is_empty_array = (TagOf(j) = "Array" /\ Len(Holder(j).a) = 0)
        /\ res.is_empty_array_or_object =
              \/ (TagOf(j) = "Array" /\ Len(Holder(j).a) = 0)
              \/ (TagOf(j) = "Object" /\ Len(Holder(j).o) = 0)

C24_Witness ==
    /\ res.op = "read"
    /\ TagOf(j) = "Array"
    /\ Len(Holder(k).a) = 0
    /\ Len(Holder(j).a) = 2
    /\ res.array = Some(Holder(j).a)
    /\ ~res.is_empty_array

C26_PrimitiveEq ==
    res.op = "primitive" =>
        /\ res.eq_str = (a = String(res.t))
        /\ res.eq_String = (a = String(res.t))
        /\ res.eq_bool = (a = Boolean(res.x))
        /\ res.eq_number = (Value_is_number(a) /\ Number_eq_primitive(a.n, res.n))
        /\ res.borrow_eq_number = res.eq_number
        /\ res.number_eq = res.eq_number

C26_Witness ==
    /\ res.op = "primitive"
    /\ a = Array(<<>>)
    /\ res.x = FALSE /\ res.n = Nat32(0)
    /\ ~res.eq_bool /\ ~res.eq_number /\ ~res.eq_str

C26_WitnessEqual ==
    /\ res.op = "primitive"
    /\ a.tag = "Number"
    /\ res.eq_number /\ res.number_eq

(* The comparison of the payloads of two values of the same tag. *)
PayloadPartialCmp(v, w) ==
    IF v.tag = "Null" THEN Some(Equal)
    ELSE IF v.tag = "Boolean" THEN bool_partial_cmp(v.b, w.b)
    ELSE IF v.tag = "Number" THEN Number_partial_cmp(v.n, w.n)
    ELSE IF v.tag = "String" THEN String_partial_cmp(v.s, w.s)
    ELSE IF v.tag = "Array" THEN Array_partial_cmp(v.a, w.a)
    ELSE Object_partial_cmp(v.o, w.o)

(***************************************************************************)
(* C27: a == b holds exactly when a.partial_cmp(b) is Some(Equal);         *)
(* partial_cmp is Equal only for values of the same tag, and None only     *)
(* when the tags match and the comparison of the payloads is None.         *)
(***************************************************************************)
C27_EqAgreesWithOrder ==
    /\ res.op = "eq" =>
          /\ res.ab = (Value_partial_cmp(a, b) = Some(Equal))
          /\ res.ba = (Value_partial_cmp(b, a) = Some(Equal))
    /\ res.op = "partial_cmp" =>
          /\ (res.ab = Some(Equal)) = Value_eq(a, b)
          /\ (res.ba = Some(Equal)) = Value_eq(b, a)
          /\ res.ab = Some(Equal) => a.tag = b.tag
          /\ res.ab = None => (a.tag = b.tag /\ PayloadPartialCmp(a, b) = None)
          /\ a.tag = b.tag => res.ab = PayloadPartialCmp(a, b)

C27_Witness ==
    /\ res.op = "partial_cmp"
    /\ BackendOf(j) # BackendOf(k)
    /\ a.tag = "Object" /\ Len(a.o) = 2
    /\ res.ab = Some(Equal)

C27_WitnessNone ==
    /\ res.op = "partial_cmp"
    /\ a.tag = "Array" /\ b.tag = "Array"
    /\ res.ab = None

(***************************************************************************)
(* C28: whatever is done through the mutable view of a node, the node      *)
(* keeps the variant it had, a Null node stays Null, a Boolean node keeps  *)
(* its bool, and the metadata of the node is unchanged.                    *)
(***************************************************************************)
C28_NoReclassify ==
    /\ TagOf(j) = TagOf(k)
    /\ Json_as_value_mut(j).tag = Json_as_value_mut(k).tag
    /\ Json_metadata(j) = Json_metadata(k)
    /\ TagOf(k) \in {"Null", "Boolean"} => j = k

C28_Witness ==
    /\ res.op = "assign"
    /\ TagOf(k) = "Number"
    /\ j # k
    /\ IsMetaValue(j)

C28_WitnessBoolean ==
    /\ res.op = "borrow"
    /\ TagOf(k) = "Boolean"
    /\ j = k

=============================================================================
